---- MODULE Spec2Model ----
(***************************************************************************)
(* A model of mermaiden.py: the aggregation of Azure virtual networks and  *)
(* their peerings into runtime_data, the scoped switch of the az CLI's     *)
(* default subscription, the minimum-version gate, and render_data.        *)
(*                                                                         *)
(* Python str values are sequences of character codes.  Python int values  *)
(* that can exceed 32 bits (adler32 checksums and their sums) are          *)
(* sequences of decimal digits, most significant digit first.              *)
(***************************************************************************)
EXTENDS Integers, Sequences, FiniteSets, TLC

\* ------------------------------------------------------------------ bounds
\* Length of the list of requested subscriptions (-s ... -s ...).
MaxSubs == 2
\* Number of directed peerings that exist in the modelled Azure tenant.
MaxPeerings == 3
\* Largest peer count handed to the node renderer in SpecStyle.
MaxPeerCount == 255
\* Largest major / minor / patch number of an installed az in SpecVersion.
MaxMajor == 10
MaxMinor == 30
MaxPatch == 1

\* ------------------------------------------------- strings and big integers
None == << >>

\* str(n) for a small natural number n, as decimal digits.
RECURSIVE Dec(_)
Dec(n) == IF n < 10 THEN <<n>> ELSE Append(Dec(n \div 10), n % 10)

RECURSIVE DecStrip(_)
DecStrip(d) == IF Len(d) > 1 /\ d[1] = 0 THEN DecStrip(Tail(d)) ELSE d

\* digits d times the small number k, plus carry c.
RECURSIVE DecMulCarry(_, _, _)
DecMulCarry(d, k, c) ==
  IF d = << >> THEN (IF c = 0 THEN << >> ELSE Dec(c))
  ELSE LET v == d[Len(d)] * k + c
       IN  Append(DecMulCarry(SubSeq(d, 1, Len(d) - 1), k, v \div 10), v % 10)

DecMul(d, k) == DecStrip(DecMulCarry(d, k, 0))

RECURSIVE DecAddCarry(_, _, _)
DecAddCarry(x, y, c) ==
  IF x = << >> /\ y = << >> THEN (IF c = 0 THEN << >> ELSE <<c>>)
  ELSE LET dx == IF x = << >> THEN 0 ELSE x[Len(x)]
           dy == IF y = << >> THEN 0 ELSE y[Len(y)]
           rx == IF x = << >> THEN << >> ELSE SubSeq(x, 1, Len(x) - 1)
           ry == IF y = << >> THEN << >> ELSE SubSeq(y, 1, Len(y) - 1)
           v  == dx + dy + c
       IN  Append(DecAddCarry(rx, ry, v \div 10), v % 10)

\* Python's int + int on unbounded integers.
IntAdd(x, y) == DecStrip(DecAddCarry(x, y, 0))

\* Python's str(int): the decimal digits as characters.
Str(n) == [i \in 1..Len(n) |-> 48 + n[i]]

\* Python's int(str) on a string of decimal digits.
IntOf(s) == DecStrip([i \in 1..Len(s) |-> s[i] - 48])

\* The sum of f[i] for i in lo..hi, by halving.
RECURSIVE SumOver(_, _, _)
SumOver(f, lo, hi) ==
  IF lo > hi THEN 0
  ELSE IF lo = hi THEN f[lo]
  ELSE LET mid == (lo + hi) \div 2
       IN  SumOver(f, lo, mid) + SumOver(f, mid + 1, hi)

\* zlib.adler32(data) = b * 65536 + a, as an unbounded integer.  a is 1 plus
\* the sum of the bytes and b the sum of a's value after every byte, both
\* modulo 65521; the byte at position i is counted Len(data) - i + 1 times
\* in b.
Adler32(data) ==
  LET n == Len(data)
      a == (1 + SumOver(data, 1, n)) % 65521
      b == (n + SumOver([i \in 1..n |-> (n - i + 1) * data[i]], 1, n)) % 65521
  IN  IntAdd(DecMul(Dec(b), 65536), Dec(a))

\* str.split(sep) for a one-character separator: the pieces between
\* consecutive occurrences of sep.
Split(s, sep) ==
  LET at == {i \in 1..Len(s) : s[i] = sep}
      \* position of the j-th separator; 0 and Len(s) + 1 bound the string
      pos(j) == IF j = 0 THEN 0
                ELSE IF j > Cardinality(at) THEN Len(s) + 1
                ELSE CHOOSE p \in at : Cardinality({q \in at : q < p}) = j - 1
  IN  [j \in 1..(Cardinality(at) + 1) |-> SubSeq(s, pos(j - 1) + 1, pos(j) - 1)]

\* Python's < on str: lexicographic by code point, a proper prefix is smaller.
RECURSIVE StrLess(_, _)
StrLess(s, t) ==
  IF t = << >> THEN FALSE
  ELSE IF s = << >> THEN TRUE
  ELSE IF s[1] # t[1] THEN s[1] < t[1]
  ELSE StrLess(Tail(s), Tail(t))


\* ------------------------------------------------- the Azure tenant (inputs)
\* The subscriptions s1, s2 of the tenant and the virtual networks vnet1,
\* vnet2 a subscription may hold, all in resource group rg.
SubNums == {1, 2}
VnetNums == {1, 2}

SubId(k) == <<115>> \o Str(Dec(k))
VnetName(n) == <<118, 110, 101, 116>> \o Str(Dec(n))

\* "/subscriptions/<sub>/resourceGroups/rg"
GroupId(k) ==
  <<47, 115, 117, 98, 115, 99, 114, 105, 112, 116, 105, 111, 110, 115, 47>>
  \o SubId(k)
  \o <<47, 114, 101, 115, 111, 117, 114, 99, 101, 71, 114, 111, 117, 112,
       115, 47, 114, 103>>

\* "<group>/providers/Microsoft.Network/virtualNetworks/<name>"
VnetId(v) ==
  GroupId(v[1])
  \o <<47, 112, 114, 111, 118, 105, 100, 101, 114, 115, 47, 77, 105, 99, 114,
       111, 115, 111, 102, 116, 46, 78, 101, 116, 119, 111, 114, 107, 47, 118,
       105, 114, 116, 117, 97, 108, 78, 101, 116, 119, 111, 114, 107, 115, 47>>
  \o VnetName(v[2])

\* The name Azure users give a peering link: "to-<sub>-<name>".
PeeringName(w) == <<116, 111, 45>> \o SubId(w[1]) \o <<45>> \o VnetName(w[2])

\* "<vnet id>/virtualNetworkPeerings/<peering name>"
PeeringId(v, w) ==
  VnetId(v)
  \o <<47, 118, 105, 114, 116, 117, 97, 108, 78, 101, 116, 119, 111, 114, 107,
       80, 101, 101, 114, 105, 110, 103, 115, 47>>
  \o PeeringName(w)

KnownSubs == {SubId(k) : k \in SubNums}
SubNumOf(id) == CHOOSE k \in SubNums : SubId(k) = id

AllVnets == SubNums \X VnetNums

\* A tenant: how many of vnet1, vnet2 each subscription holds, and the
\* directed peering links between the networks that exist.
Exists(count, v) == v[2] <= count[v[1]]

\* The directed links possible between the networks that exist.
LinksOf(count) ==
  { l \in AllVnets \X AllVnets :
      l[1] # l[2] /\ Exists(count, l[1]) /\ Exists(count, l[2]) }

\* The sets of at most n of the links in L.
RECURSIVE LinkSets(_, _)
LinkSets(L, n) ==
  IF n = 0 THEN {{}}
  ELSE LET smaller == LinkSets(L, n - 1)
       IN  smaller \cup {s \cup {l} : s \in smaller, l \in L}

Tenants ==
  UNION { { [count |-> c, links |-> ls] : ls \in LinkSets(LinksOf(c), MaxPeerings) } :
          c \in [SubNums -> {0} \cup VnetNums] }

\* The elements of a set of <<sub, vnet>> pairs in ascending order.
RECURSIVE Sorted(_)
Sorted(S) ==
  IF S = {} THEN << >>
  ELSE LET m == CHOOSE x \in S :
                  \A y \in S : x[1] < y[1] \/ (x[1] = y[1] /\ x[2] <= y[2])
       IN  <<m>> \o Sorted(S \ {m})

\* One element of the JSON array "az network vnet list" prints.
RawVnet(t, v) ==
  LET remotes == Sorted({w \in AllVnets : <<v, w>> \in t.links})
  IN  [id |-> VnetId(v),
       name |-> VnetName(v[2]),
       virtualNetworkPeerings |->
         [i \in 1..Len(remotes) |->
            [id |-> PeeringId(v, remotes[i]),
             name |-> PeeringName(remotes[i]),
             remoteVirtualNetwork |-> [id |-> VnetId(remotes[i])]]]]

\* The JSON array "az network vnet list" prints for subscription k.
VnetList(t, k) ==
  LET vs == Sorted({v \in AllVnets : v[1] = k /\ Exists(t.count, v)})
  IN  [i \in 1..Len(vs) |-> RawVnet(t, vs[i])]

\* A listing whose i-th element carries an identifier cut after the
\* resource group (malformed: too few path segments).
CutListed(list, i) ==
  [list EXCEPT ![i].id = GroupId(SubNumOf(Split(list[i].id, 47)[3]))]

\* A listing whose i-th element's first peering names a remote network by an
\* identifier cut after the resource group.
CutRemote(list, i) ==
  [list EXCEPT ![i].virtualNetworkPeerings[1].remoteVirtualNetwork.id =
     GroupId(SubNumOf(Split(@, 47)[3]))]

\* The version string "az version" reports, and the lists of requested
\* subscriptions.
VersionString(major, minor, patch) ==
  Str(Dec(major)) \o <<46>> \o Str(Dec(minor)) \o <<46>> \o Str(Dec(patch))

SubIdLists == UNION { [1..n -> KnownSubs] : n \in 0..MaxSubs }

\* ------------------------------------------------------------ resource model
\* Every identifier the CLI can print for a network.
AllIds == {VnetId(v) : v \in AllVnets} \cup {GroupId(k) : k \in SubNums}

\* str(zlib.adler32(id.encode('ascii'))) and id.split('/') for these
\* identifiers, computed once.
HashTable == [id \in AllIds |-> Str(Adler32(id))]
SplitTable == [id \in AllIds |-> Split(id, 47)]

\* az_res.__post_init__: the hash is the decimal text of the checksum.
az_res_hash(id) == HashTable[id]

\* az_vnet.__post_init__ raises IndexError unless id.split('/') has the
\* elements [2], [4] and [8].
IdParses(id) == Len(SplitTable[id]) >= 9

\* az_vnet(**fields): the fields derived from the identifier.
az_vnet(id) ==
  LET id_split == SplitTable[id]
  IN  [id |-> id,
       resourceGroup |-> id_split[5],
       name |-> id_split[9],
       sub_id |-> id_split[3],
       hash |-> az_res_hash(id),
       peers |-> << >>]

get_az_vnet(data) == az_vnet(data.id)

\* az_vnet_peering.__post_init__: the hash of the identifier is replaced by
\* the sum of the two endpoints' hashes.
PeeringHash(thisHash, peeredHash) ==
  Str(IntAdd(IntOf(thisHash), IntOf(peeredHash)))

\* az_vnet_peering(**fields, peeredVnet, thisVnet); thisVnet and peeredVnet
\* are references to az_vnet objects.
az_vnet_peering(raw, thisRef, thisHash, peeredRef, peeredHash) ==
  [id |-> raw.id,
   name |-> raw.name,
   hash |-> PeeringHash(thisHash, peeredHash),
   thisVnet |-> thisRef,
   peeredVnet |-> peeredRef]

\* ---------------------------------------------------------------- dict
\* A Python dict: its items in insertion order.
DictHas(d, k) == \E i \in 1..Len(d) : d[i].key = k
DictGet(d, k) == d[CHOOSE i \in 1..Len(d) : d[i].key = k].value
DictKeys(d) == {d[i].key : i \in 1..Len(d)}

\* A variant of VnetMapInsert without the membership test: an assignment to
\* a key the dict holds replaces its value in place.
VnetMapOverwrite(vnet_map, hash, ref) ==
  IF DictHas(vnet_map, hash)
  THEN [i \in 1..Len(vnet_map) |->
          IF vnet_map[i].key = hash THEN [key |-> hash, value |-> ref]
          ELSE vnet_map[i]]
  ELSE Append(vnet_map, [key |-> hash, value |-> ref])

\* "if hash not in runtime.vnet_map: runtime.vnet_map[hash] = vnet"
VnetMapInsert(vnet_map, hash, ref) ==
  IF DictHas(vnet_map, hash) THEN vnet_map
  ELSE Append(vnet_map, [key |-> hash, value |-> ref])

\* "if peer.hash not in runtime.peer_map: runtime.peer_map[peer.hash] = peer"
PeerMapInsert(peer_map, hash, ref) ==
  IF DictHas(peer_map, hash) THEN peer_map
  ELSE Append(peer_map, [key |-> hash, value |-> ref])

\* "runtime.vnet_map[hash].peers.append(peer)"
PeersAppend(objs, vnet_map, hash, peerRef) ==
  LET ref == DictGet(vnet_map, hash)
  IN  [objs EXCEPT ![ref].peers = Append(@, peerRef)]

\* ------------------------------------------------------------- aggregation
\* The body of "for peer in get_az_vnet_peers(raw_vnet)" for the raw
\* peerings from index i on.  st holds the az_vnet objects, the
\* az_vnet_peering objects, the two maps, and raised (an IndexError left the
\* loop).  azHash is azvnet.hash and thisRef the generator's own az_vnet.
RECURSIVE PeerLoop(_, _, _, _, _)
PeerLoop(st, raws, i, azHash, thisRef) ==
  IF i > Len(raws) THEN st
  ELSE IF ~IdParses(raws[i].remoteVirtualNetwork.id)
  THEN [st EXCEPT !.raised = TRUE]
  ELSE
    LET peered_vnet == get_az_vnet(raws[i].remoteVirtualNetwork)
        peeredRef == Len(st.vnets) + 1
        vnets1 == Append(st.vnets, peered_vnet)
        peer == az_vnet_peering(raws[i], thisRef, st.vnets[thisRef].hash,
                                peeredRef, peered_vnet.hash)
        peerRef == Len(st.peerings) + 1
        vnets2 == PeersAppend(vnets1, st.vnet_map, azHash, peerRef)
        vnet_map2 == VnetMapInsert(st.vnet_map, peered_vnet.hash, peeredRef)
        vnets3 == PeersAppend(vnets2, vnet_map2, peered_vnet.hash, peerRef)
    IN  PeerLoop([vnets |-> vnets3,
                  peerings |-> Append(st.peerings, peer),
                  vnet_map |-> vnet_map2,
                  peer_map |-> PeerMapInsert(st.peer_map, peer.hash, peerRef),
                  raised |-> FALSE],
                 raws, i + 1, azHash, thisRef)

\* One pass of "for raw_vnet in cmd_output" up to, not including,
\* sub_vnet_refs.append: the listed network is parsed and inserted, the
\* generator parses it a second time, and its peerings are folded in.
VnetStep(st, raw_vnet) ==
  IF ~IdParses(raw_vnet.id) THEN [st EXCEPT !.raised = TRUE]
  ELSE
    LET azvnet == get_az_vnet(raw_vnet)
        azRef == Len(st.vnets) + 1
        thisRef == azRef + 1
        st1 == [st EXCEPT
                  !.vnets = Append(Append(@, azvnet), get_az_vnet(raw_vnet)),
                  !.vnet_map = VnetMapInsert(@, azvnet.hash, azRef)]
    IN  PeerLoop(st1, raw_vnet.virtualNetworkPeerings, 1, azvnet.hash, thisRef)

\* ---------------------------------------------------------------- rendering
\* mmd_vnet_styles_by_peer_count: range(lo, hi) -> style, in dict order.
mmd_vnet_styles_by_peer_count ==
  << [lo |-> 0,  hi |-> 1,   style |-> "fill:#8cbed6"],
     [lo |-> 1,  hi |-> 10,  style |-> "fill:#f8de7e"],
     [lo |-> 10, hi |-> 20,  style |-> "fill:#ff8243"],
     [lo |-> 20, hi |-> 50,  style |-> "fill:#ff5349"],
     [lo |-> 50, hi |-> 255, style |-> "fill:#c90016"] >>

\* "peer_count in range(lo, hi)"
InRange(n, r) == r.lo <= n /\ n < r.hi

\* get_mmd_vnet_style: the first matching range's style as <<style>>, or
\* << >> for Python's None.
get_mmd_vnet_style(peer_count) ==
  LET T == mmd_vnet_styles_by_peer_count
      hits == {i \in 1..Len(T) : InRange(peer_count, T[i])}
  IN  IF hits = {} THEN << >>
      ELSE <<T[CHOOSE i \in hits : \A j \in hits : i <= j].style>>

\* What Template.substitute writes for a style value: str(None) is "None".
StyleText(style) == IF style = << >> THEN "None" ELSE style[1]

\* mmd_vnet_label ("hexagon") or mmd_vnet_label_rnd ("round"), substituted.
NodeLine(shape, hash, name, peer_count) ==
  [kind |-> "node", shape |-> shape, node |-> hash, label |-> name,
   pc |-> peer_count]

\* mmd_vnet_style.substitute(node=node, style=get_mmd_vnet_style(peer_count))
StyleLine(hash, peer_count) ==
  [kind |-> "style", node |-> hash,
   style |-> StyleText(get_mmd_vnet_style(peer_count))]

\* The two lines render_data appends for a network owned by a subscription.
OwnedNodeLines(hash, name, peer_count) ==
  << NodeLine(IF peer_count > 0 THEN "hexagon" ELSE "round",
              hash, name, peer_count),
     StyleLine(hash, peer_count) >>

\* The two lines render_data appends for a network no subscription owns.
ExternalNodeLines(hash, name, peer_count) ==
  << NodeLine("round", hash, name, peer_count), StyleLine(hash, peer_count) >>

SubgraphBegin(label) == [kind |-> "subgraph", label |-> label]
SubgraphEnd == [kind |-> "end"]

\* mmd_vnet_peering_wl / mmd_vnet_peering_nl, substituted.
EdgeLine(with_labels, thisHash, name, peeredHash) ==
  IF with_labels
  THEN [kind |-> "edge", node |-> thisHash, label |-> name, peer |-> peeredHash]
  ELSE [kind |-> "edge", node |-> thisHash, peer |-> peeredHash]

\* The ways a Python set can be iterated: every order of its elements.
Orders(S) ==
  { o \in [1..Cardinality(S) -> S] : \A i, j \in DOMAIN o : o[i] = o[j] => i = j }

RECURSIVE Flatten(_)
Flatten(ss) == IF ss = << >> THEN << >> ELSE Head(ss) \o Flatten(Tail(ss))

\* "__EXTERNAL__"
ExternalLabel == <<95, 95, 69, 88, 84, 69, 82, 78, 65, 76, 95, 95>>

\* The hashes render_data leaves for the external block.
Unprocessed(rt) ==
  DictKeys(rt.vnet_map)
    \ UNION {rt.subscription_data[i].vnet_refs : i \in 1..Len(rt.subscription_data)}

\* render_data: the output lines between header and footer.  sub_orders[i]
\* is the order the i-th record's vnet_refs set is iterated in and ext_order
\* the order of the unprocessed set.
render_data(rt, vnets, peerings, sub_orders, ext_order) ==
  LET node(hash) == vnets[DictGet(rt.vnet_map, hash)]
      block(i) ==
        LET subdata == rt.subscription_data[i]
            nodes == Flatten([j \in 1..Len(sub_orders[i]) |->
                       OwnedNodeLines(node(sub_orders[i][j]).hash,
                                      node(sub_orders[i][j]).name,
                                      Len(node(sub_orders[i][j]).peers))])
        IN  IF rt.render_as_subgraph
            THEN <<SubgraphBegin(subdata.subscription.name)>> \o nodes
                 \o <<SubgraphEnd>>
            ELSE nodes
      external ==
        Flatten([j \in 1..Len(ext_order) |->
                   ExternalNodeLines(node(ext_order[j]).hash,
                                     node(ext_order[j]).name,
                                     Len(node(ext_order[j]).peers))])
      edges ==
        [j \in 1..Len(rt.peer_map) |->
           LET peer == peerings[rt.peer_map[j].value]
           IN  EdgeLine(rt.render_with_edge_labels, vnets[peer.thisVnet].hash,
                        peer.name, vnets[peer.peeredVnet].hash)]
  IN  Flatten([i \in 1..Len(rt.subscription_data) |-> block(i)])
      \o (IF rt.render_as_subgraph
          THEN <<SubgraphBegin(ExternalLabel)>> \o external \o <<SubgraphEnd>>
          ELSE external)
      \o edges

\* ------------------------------------------------------ requirements check
\* azver = semver._make("2.27.0".split('.')): a tuple of three strings.
azver == Split(<<50, 46, 50, 55, 46, 48>>, 46)

\* Python's >= on two tuples of strings of the same length: decided by the
\* first pair of unequal elements.
RECURSIVE TupleGE(_, _)
TupleGE(x, y) ==
  IF x = << >> \/ y = << >> THEN Len(x) >= Len(y)
  ELSE IF x[1] = y[1] THEN TupleGE(Tail(x), Tail(y))
  ELSE StrLess(y[1], x[1])

\* check_local_requirements passes on this "azure-cli-core" string.
VersionMet(version) == TupleGE(Split(version, 46), azver)

\* -------------------------------------------------------------------- state
VARIABLES
  pc,             \* where the run is
  sub_ids,        \* the requested subscriptions, after argument parsing
  azure,          \* the tenant the az CLI reports on
  az_version,     \* the "azure-cli-core" string "az version" prints
  cli_default,    \* the az CLI's default subscription (state outside the run)
  idx,            \* position of the main loop in sub_ids
  sub_id,         \* aggregate_subscription's argument
  curr_sub_id,    \* use_azure_account's local
  active_sub,     \* the account use_azure_account yields
  raising,        \* the exception propagating into the finally clause, or "none"
  cmd_output,     \* the parsed listing aggregate_subscription iterates over
  vi,             \* position of "for raw_vnet in cmd_output"
  sub_vnet_refs,  \* aggregate_subscription's local list
  data_map,       \* aggregate_subscription's local dict
  vnet_objs,      \* every az_vnet object created, by reference
  peering_objs,   \* every az_vnet_peering object created, by reference
  runtime,        \* runtime_data
  output_text,    \* render_data's result
  outfile,        \* what was written to the output file
  exit_status,    \* the process's exit status
  scope,          \* history of the current or last use_azure_account scope
  started,        \* history: the arguments of aggregate_subscription's calls
  render_calls,   \* history: number of calls of render_data
  failed_at,      \* history: calls of aggregate_subscription made when an
                  \* exception reached the handler, -1 while none has
  logged,         \* the exception logging.fatal reported, or "none"
  peer_count_in,  \* SpecStyle: the peer count handed to the node renderer
  style_out       \* SpecStyle: the lines rendered for it

vars ==
  <<pc, sub_ids, azure, az_version, cli_default, idx, sub_id, curr_sub_id,
    active_sub, raising, cmd_output, vi, sub_vnet_refs, data_map, vnet_objs,
    peering_objs, runtime, output_text, outfile, exit_status, scope, started,
    render_calls, failed_at, logged, peer_count_in, style_out>>

inputs == <<sub_ids, azure, az_version>>
locals == <<sub_id, curr_sub_id, active_sub, raising, cmd_output, vi,
            sub_vnet_refs, data_map>>
graph == <<vnet_objs, peering_objs, runtime>>
results == <<output_text, outfile, exit_status, logged>>
style == <<peer_count_in, style_out>>

\* runtime_data(): the dataclass defaults.
runtime_data ==
  [vnet_map |-> << >>, peer_map |-> << >>, subscription_data |-> << >>,
   render_as_subgraph |-> FALSE, render_with_edge_labels |-> TRUE]

NoScope ==
  [state |-> "none", before |-> None, switched |-> FALSE, path |-> "none",
   restore_target |-> None, restore_ok |-> FALSE]

Idle ==
  /\ cli_default = SubId(1)
  /\ idx = 1
  /\ sub_id = None /\ curr_sub_id = None /\ active_sub = None
  /\ raising = "none"
  /\ cmd_output = << >> /\ vi = 1
  /\ sub_vnet_refs = << >> /\ data_map = None
  /\ vnet_objs = << >> /\ peering_objs = << >>
  /\ runtime = runtime_data
  /\ output_text = None /\ outfile = None /\ exit_status = -1
  /\ scope = NoScope
  /\ started = << >> /\ render_calls = 0 /\ failed_at = -1
  /\ logged = "none"

\* The tenants a run over the subscriptions subs can tell apart: the links
\* out of a subscription that is never listed are never read.
TenantsSeenBy(subs) ==
  { t \in Tenants :
      \A l \in t.links : \E i \in 1..Len(subs) : subs[i] = SubId(l[1][1]) }

\* The state when the try block of __main__ is entered.
Init ==
  /\ pc = "start"
  /\ sub_ids \in SubIdLists
  /\ azure \in TenantsSeenBy(sub_ids)
  /\ az_version \in {VersionString(2, 27, 0), VersionString(2, 26, 0)}
  /\ Idle
  /\ peer_count_in = 0 /\ style_out = << >>

\* A variant of Fatal that logs the exception and lets the run go on with
\* the loop over the subscriptions.
FatalSkips(ex) ==
  /\ pc' = "loop"
  /\ logged' = ex
  /\ failed_at' = Len(started)
  /\ UNCHANGED exit_status

\* "except Exception as ex: logging.fatal(ex); sys.exit(1)"
Fatal(ex) ==
  /\ pc' = "failed"
  /\ logged' = ex
  /\ exit_status' = 1
  /\ failed_at' = Len(started)

\* check_local_requirements, then runtime = runtime_data().
CheckLocalRequirements ==
  /\ pc = "start"
  /\ \E az \in {"missing", "error", "ok"} :
       IF az = "missing" THEN Fatal("az not found") /\ UNCHANGED runtime
       ELSE IF az = "error" THEN Fatal("CalledProcessError") /\ UNCHANGED runtime
       ELSE IF ~VersionMet(az_version)
       THEN Fatal("version requirement not met") /\ UNCHANGED runtime
       ELSE /\ pc' = "loop"
            /\ runtime' = runtime_data
            /\ UNCHANGED <<exit_status, failed_at, logged>>
  /\ UNCHANGED <<inputs, cli_default, idx, locals, vnet_objs, peering_objs,
                 output_text, outfile, scope, started, render_calls, style>>

\* "for sub_id in sub_ids": the next call of aggregate_subscription up to the
\* entry of the with statement, or the end of the loop.
MainLoop ==
  /\ pc = "loop"
  /\ IF idx <= Len(sub_ids)
     THEN /\ pc' = "account_show"
          /\ sub_id' = sub_ids[idx]
          /\ data_map' = None
          /\ sub_vnet_refs' = << >>
          /\ curr_sub_id' = None
          /\ started' = Append(started, sub_ids[idx])
          /\ scope' = [NoScope EXCEPT !.state = "inside", !.before = cli_default]
     ELSE /\ pc' = "render"
          /\ UNCHANGED <<sub_id, data_map, sub_vnet_refs, curr_sub_id, started,
                         scope>>
  /\ UNCHANGED <<inputs, cli_default, idx, active_sub, raising, cmd_output, vi,
                 graph, results, render_calls, failed_at, style>>

\* The account "az account show" prints.
AccountShown == [id |-> cli_default, isDefault |-> TRUE, name |-> cli_default]

\* use_azure_account: the first "az account show".
AccountShow ==
  /\ pc = "account_show"
  /\ \E ok \in BOOLEAN :
       IF ok
       THEN /\ curr_sub_id' = AccountShown.id
            /\ IF AccountShown.isDefault /\ AccountShown.id = sub_id
               THEN /\ pc' = "vnet_list"
                    /\ active_sub' = AccountShown
                    /\ UNCHANGED scope
               ELSE /\ pc' = "account_set"
                    /\ UNCHANGED <<active_sub, scope>>
            /\ UNCHANGED raising
       ELSE /\ pc' = "restore"
            /\ raising' = "CalledProcessError"
            /\ scope' = [scope EXCEPT !.path = "show_failed"]
            /\ UNCHANGED <<curr_sub_id, active_sub>>
  /\ UNCHANGED <<inputs, cli_default, idx, sub_id, cmd_output, vi,
                 sub_vnet_refs, data_map, graph, results, started,
                 render_calls, failed_at, style>>

\* "az account set --subscription <target>": exits zero and switches the
\* default only for a subscription the CLI knows.
AccountSetSucceeds(target, ok) == ok /\ target \in KnownSubs

\* use_azure_account: "az account set --subscription {sub_id}".
AccountSet ==
  /\ pc = "account_set"
  /\ \E ok \in BOOLEAN :
       IF AccountSetSucceeds(sub_id, ok)
       THEN /\ cli_default' = sub_id
            /\ pc' = "account_show2"
            /\ scope' = [scope EXCEPT !.switched = TRUE]
            /\ UNCHANGED raising
       ELSE /\ pc' = "restore"
            /\ raising' = "CalledProcessError"
            /\ scope' = [scope EXCEPT !.path = "set_failed"]
            /\ UNCHANGED cli_default
  /\ UNCHANGED <<inputs, idx, sub_id, curr_sub_id, active_sub, cmd_output, vi,
                 sub_vnet_refs, data_map, graph, results, started,
                 render_calls, failed_at, style>>

\* use_azure_account: the second "az account show", then the yield.
AccountShowAgain ==
  /\ pc = "account_show2"
  /\ \E ok \in BOOLEAN :
       IF ok
       THEN /\ pc' = "vnet_list"
            /\ active_sub' = AccountShown
            /\ UNCHANGED <<raising, scope>>
       ELSE /\ pc' = "restore"
            /\ raising' = "CalledProcessError"
            /\ scope' = [scope EXCEPT !.path = "show_failed_after_set"]
            /\ UNCHANGED active_sub
  /\ UNCHANGED <<inputs, cli_default, idx, sub_id, curr_sub_id, cmd_output, vi,
                 sub_vnet_refs, data_map, graph, results, started,
                 render_calls, failed_at, style>>

\* What json.loads(check_output("az network vnet list")) can return for the
\* active subscription: its listing, the listing with its first identifier
\* malformed, or the listing with the first remote identifier malformed.
Listings ==
  LET list == VnetList(azure, SubNumOf(cli_default))
      peered == {j \in 1..Len(list) : list[j].virtualNetworkPeerings # << >>}
  IN  {list}
      \cup {CutListed(list, i) : i \in {1} \cap DOMAIN list}
      \cup {CutRemote(list, i) : i \in {j \in peered : \A k \in peered : j <= k}}

\* aggregate_subscription: "az network vnet list" and json.loads.
ListVnets ==
  /\ pc = "vnet_list"
  /\ \/ /\ \E list \in Listings : cmd_output' = list
        /\ vi' = 1
        /\ pc' = "vnets"
        /\ UNCHANGED <<raising, scope>>
     \/ /\ pc' = "restore"
        /\ raising' = "CalledProcessError"
        /\ scope' = [scope EXCEPT !.path = "body_raised"]
        /\ UNCHANGED <<cmd_output, vi>>
  /\ UNCHANGED <<inputs, cli_default, idx, sub_id, curr_sub_id, active_sub,
                 sub_vnet_refs, data_map, graph, results, started,
                 render_calls, failed_at, style>>

\* The maps and objects as the fold over a listing sees them.
GraphState ==
  [vnets |-> vnet_objs, peerings |-> peering_objs,
   vnet_map |-> runtime.vnet_map, peer_map |-> runtime.peer_map,
   raised |-> FALSE]

\* aggregate_subscription: one pass of "for raw_vnet in cmd_output".
AggregateVnet ==
  /\ pc = "vnets"
  /\ vi <= Len(cmd_output)
  /\ LET st == VnetStep(GraphState, cmd_output[vi])
     IN  /\ vnet_objs' = st.vnets
         /\ peering_objs' = st.peerings
         /\ runtime' = [runtime EXCEPT !.vnet_map = st.vnet_map,
                                       !.peer_map = st.peer_map]
         /\ IF st.raised
            THEN /\ pc' = "restore"
                 /\ raising' = "IndexError"
                 /\ scope' = [scope EXCEPT !.path = "body_raised"]
                 /\ UNCHANGED <<vi, sub_vnet_refs>>
            ELSE /\ vi' = vi + 1
                 /\ sub_vnet_refs' =
                      Append(sub_vnet_refs, get_az_vnet(cmd_output[vi]).hash)
                 /\ UNCHANGED <<pc, raising, scope>>
  /\ UNCHANGED <<inputs, cli_default, idx, sub_id, curr_sub_id, active_sub,
                 cmd_output, data_map, results, started, render_calls,
                 failed_at, style>>

\* aggregate_subscription: data_map.update(...), the last statement of the
\* with block.
UpdateDataMap ==
  /\ pc = "vnets"
  /\ vi > Len(cmd_output)
  /\ data_map' = [subscription |-> active_sub,
                  vnet_refs |-> {sub_vnet_refs[i] : i \in 1..Len(sub_vnet_refs)}]
  /\ pc' = "restore"
  /\ scope' = [scope EXCEPT !.path = "body_completed"]
  /\ UNCHANGED <<inputs, cli_default, idx, sub_id, curr_sub_id, active_sub,
                 raising, cmd_output, vi, sub_vnet_refs, graph, results,
                 started, render_calls, failed_at, style>>

\* The text an f-string writes for curr_sub_id: "None" for None.
Format(value) == IF value = None THEN <<78, 111, 110, 101>> ELSE value

\* The subscription the finally clause hands to "az account set".
RestoreTarget == Format(curr_sub_id)

\* use_azure_account's finally clause, then, when nothing is raised,
\* runtime.subscription_data.append(data_map) and the next loop pass.
Restore ==
  /\ pc = "restore"
  /\ \E ok \in BOOLEAN :
       LET done == AccountSetSucceeds(RestoreTarget, ok)
       IN  /\ cli_default' = IF done THEN RestoreTarget ELSE cli_default
           /\ scope' = [scope EXCEPT !.state = "exited",
                                     !.restore_target = RestoreTarget,
                                     !.restore_ok = done]
           /\ IF ~done
              THEN Fatal("CalledProcessError") /\ UNCHANGED <<runtime, idx>>
              ELSE IF raising # "none"
              THEN Fatal(raising) /\ UNCHANGED <<runtime, idx>>
              ELSE /\ runtime' = [runtime EXCEPT
                                    !.subscription_data = Append(@, data_map)]
                   /\ idx' = idx + 1
                   /\ pc' = "loop"
                   /\ UNCHANGED <<exit_status, failed_at, logged>>
  /\ raising' = "none"
  /\ UNCHANGED <<inputs, sub_id, curr_sub_id, active_sub, cmd_output, vi,
                 sub_vnet_refs, data_map, vnet_objs, peering_objs,
                 output_text, outfile, started, render_calls, style>>

\* The orders in which render_data can iterate the records' vnet_refs sets.
SubOrders(rt) ==
  LET n == Len(rt.subscription_data)
      all == UNION {Orders(rt.subscription_data[i].vnet_refs) : i \in 1..n}
  IN  { f \in [1..n -> all] :
          \A i \in 1..n : f[i] \in Orders(rt.subscription_data[i].vnet_refs) }

\* __main__ after the loop: the two rendering flags are copied from the
\* arguments, render_data is called, its text is written to the output file,
\* and the run ends.
RenderAndWrite ==
  /\ pc = "render"
  /\ \E el \in BOOLEAN, sg \in BOOLEAN :
       LET rt == [runtime EXCEPT !.render_with_edge_labels = el,
                                 !.render_as_subgraph = sg]
       IN  /\ runtime' = rt
           /\ \E so \in SubOrders(rt), eo \in Orders(Unprocessed(rt)) :
                /\ output_text' = render_data(rt, vnet_objs, peering_objs, so, eo)
                /\ outfile' = output_text'
  /\ render_calls' = render_calls + 1
  /\ pc' = "done"
  /\ exit_status' = 0
  /\ UNCHANGED <<inputs, cli_default, idx, locals, vnet_objs, peering_objs,
                 scope, started, failed_at, logged, style>>

Next ==
  \/ CheckLocalRequirements
  \/ MainLoop
  \/ AccountShow
  \/ AccountSet
  \/ AccountShowAgain
  \/ ListVnets
  \/ AggregateVnet
  \/ UpdateDataMap
  \/ Restore
  \/ RenderAndWrite

Spec == Init /\ [][Next]_vars

\* ------------------------------------------- the version gate on its own
Versions ==
  { VersionString(major, minor, patch) :
      major \in 0..MaxMajor, minor \in 0..MaxMinor, patch \in 0..MaxPatch }

InitVersion ==
  /\ pc = "start"
  /\ sub_ids = << >>
  /\ azure = [count |-> [k \in SubNums |-> 0], links |-> {}]
  /\ az_version \in Versions
  /\ Idle
  /\ peer_count_in = 0 /\ style_out = << >>

SpecVersion == InitVersion /\ [][CheckLocalRequirements]_vars

\* ----------------------------------------- the node renderer on its own
InitStyle ==
  /\ pc = "style"
  /\ sub_ids = << >>
  /\ azure = [count |-> [k \in SubNums |-> 0], links |-> {}]
  /\ az_version = VersionString(2, 27, 0)
  /\ Idle
  /\ peer_count_in \in 0..MaxPeerCount
  /\ style_out = << >>

\* render_data's two appends for one network with peer_count_in peers, in a
\* subscription's block or in the external block.
RenderNode ==
  /\ pc = "style"
  /\ \E owned \in BOOLEAN :
       style_out' =
         IF owned
         THEN OwnedNodeLines(az_res_hash(VnetId(<<1, 1>>)), VnetName(1),
                             peer_count_in)
         ELSE ExternalNodeLines(az_res_hash(VnetId(<<1, 1>>)), VnetName(1),
                                peer_count_in)
  /\ pc' = "styled"
  /\ UNCHANGED <<inputs, cli_default, idx, locals, graph, results, scope,
                 started, render_calls, failed_at, peer_count_in>>

SpecStyle == InitStyle /\ [][RenderNode]_vars

\* ================================================================== claims
\* ---- helpers of the properties
RECURSIVE NatOf(_)
\* The number a string of decimal digits writes.
NatOf(str) ==
  IF str = << >> THEN 0
  ELSE 10 * NatOf(SubSeq(str, 1, Len(str) - 1)) + (str[Len(str)] - 48)

\* The records of runtime.subscription_data and their owned sets.
Records == 1..Len(runtime.subscription_data)
OwnedBy(i) == runtime.subscription_data[i].vnet_refs

\* The node declarations of hash h among the lines of a text.
NodeDecls(text, h) ==
  {i \in 1..Len(text) : text[i].kind = "node" /\ text[i].node = h}
StyleDecls(text) == {i \in 1..Len(text) : text[i].kind = "style"}
EdgeDecls(text) == {i \in 1..Len(text) : text[i].kind = "edge"}

\* The identifiers of the two networks a peering object joins.
Ends(p) == {vnet_objs[p.thisVnet].id, vnet_objs[p.peeredVnet].id}
Peerings == {peering_objs[i] : i \in 1..Len(peering_objs)}

\* C1: when a use_azure_account scope has exited, on any path, its restore
\* step has targeted the subscription that was the default when the scope
\* was entered, and (the restore command having exited zero) the CLI's
\* default subscription is that subscription again.
C1_RestoresOriginalDefault ==
  scope.state = "exited" =>
    /\ scope.restore_target = scope.before
    /\ scope.restore_ok => cli_default = scope.before

\* The scope was left because the first "az account show" failed.
C1_ShowFailedExit == scope.state = "exited" /\ scope.path = "show_failed"

\* C2: every network hash is in the owned set of at most one subscription
\* record, and is a key of the network map exactly once.
C2_OwnershipPartition ==
  /\ \A i, j \in Records : i # j => OwnedBy(i) \cap OwnedBy(j) = {}
  /\ \A i, j \in 1..Len(runtime.vnet_map) :
       runtime.vnet_map[i].key = runtime.vnet_map[j].key => i = j

\* C3: the written text declares every key of the network map exactly once.
C3_RenderCompleteness ==
  pc = "done" =>
    \A h \in DictKeys(runtime.vnet_map) : Cardinality(NodeDecls(outfile, h)) = 1

\* The run of the end-to-end scenario: subscriptions s1 and s2 are requested,
\* each lists its one network, and each listing reports the peering of the
\* two networks from its own side.
TwoPeeredSubscriptions ==
  /\ sub_ids = <<SubId(1), SubId(2)>>
  /\ azure.count = [k \in SubNums |-> 1]
  /\ azure.links = {<<<<1, 1>>, <<2, 1>>>>, <<<<2, 1>>, <<1, 1>>>>}

\* C4: in the end-to-end scenario the peering map has one entry and the
\* written text has two node declarations, one in each subscription's block,
\* both hexagon-style with peer count 1, and one edge joining the two hashes.
C4_EndToEnd ==
  (TwoPeeredSubscriptions /\ pc = "done") =>
    LET h1 == az_res_hash(VnetId(<<1, 1>>))
        h2 == az_res_hash(VnetId(<<2, 1>>))
        nodes == {i \in 1..Len(outfile) : outfile[i].kind = "node"}
    IN  /\ Len(runtime.peer_map) = 1
        /\ Cardinality(nodes) = 2
        /\ Cardinality(NodeDecls(outfile, h1)) = 1
        /\ Cardinality(NodeDecls(outfile, h2)) = 1
        /\ \A i \in NodeDecls(outfile, h1) : \A j \in NodeDecls(outfile, h2) : i < j
        /\ \A i \in nodes : outfile[i].shape = "hexagon" /\ outfile[i].pc = 1
        /\ Cardinality(EdgeDecls(outfile)) = 1
        /\ \A i \in EdgeDecls(outfile) :
             {outfile[i].node, outfile[i].peer} = {h1, h2}

\* The style the tier table of the specification gives a peer count, << >>
\* where no directive is to be emitted.
TierOf(n) ==
  IF n = 0 THEN <<"fill:#8cbed6">>
  ELSE IF n <= 9 THEN <<"fill:#f8de7e">>
  ELSE IF n <= 19 THEN <<"fill:#ff8243">>
  ELSE IF n <= 49 THEN <<"fill:#ff5349">>
  ELSE IF n <= 254 THEN <<"fill:#c90016">>
  ELSE << >>

\* C5: a rendered network carries the style directive of its peer count's
\* tier (0 lightest, 1..9 yellow, 10..19 orange, 20..49 red, 50..254 dark
\* red), and no style directive at all when no tier matches (255 and up).
C5_TierSelection ==
  pc = "styled" =>
    IF TierOf(peer_count_in) = << >>
    THEN StyleDecls(style_out) = {}
    ELSE /\ Cardinality(StyleDecls(style_out)) = 1
         /\ \A i \in StyleDecls(style_out) :
              style_out[i].style = TierOf(peer_count_in)[1]

\* C6: two peerings discovered from opposite sides of the same pair of
\* networks have the same combined hash, and once aggregated the peering map
\* holds exactly one entry for that pair.
C6_SymmetricDeduplication ==
  \A p, q \in Peerings :
    (/\ vnet_objs[p.thisVnet].id = vnet_objs[q.peeredVnet].id
     /\ vnet_objs[p.peeredVnet].id = vnet_objs[q.thisVnet].id)
    => /\ p.hash = q.hash
       /\ Cardinality({j \in 1..Len(runtime.peer_map) :
            Ends(peering_objs[runtime.peer_map[j].value]) = Ends(p)}) = 1

\* C7: the output file is written only by a run that aggregated every
\* requested subscription in input order without error and rendered once;
\* a run in which an exception was raised while k calls of
\* aggregate_subscription had been made has made no further call, has not
\* rendered, has written nothing, and has ended with exit status 1.
C7_NoPartialSuccess ==
  /\ outfile # None =>
       /\ pc = "done" /\ exit_status = 0 /\ failed_at = -1
       /\ started = sub_ids
       /\ render_calls = 1
       /\ Len(runtime.subscription_data) = Len(sub_ids)
       /\ \A i \in Records :
            runtime.subscription_data[i].subscription.id = sub_ids[i]
  /\ (pc = "failed" \/ failed_at # -1 \/ logged # "none") =>
       /\ pc = "failed" /\ exit_status = 1 /\ logged # "none"
       /\ failed_at >= 0
       /\ started = SubSeq(sub_ids, 1, failed_at)
       /\ render_calls = 0
       /\ output_text = None /\ outfile = None

\* An identifier failed to parse while the second of two requested
\* subscriptions was processed; the first had been recorded.
C7_FailedInSecondSubscription ==
  /\ pc = "failed" /\ logged = "IndexError"
  /\ failed_at = 2 /\ Len(sub_ids) = 2
  /\ Len(runtime.subscription_data) = 1

\* The three numbers of a dotted version string.
VersionNumbers(version) ==
  [i \in 1..3 |-> NatOf(Split(version, 46)[i])]

\* Version v is below version m, comparing number by number.
VersionBelow(v, m) ==
  \/ v[1] < m[1]
  \/ v[1] = m[1] /\ v[2] < m[2]
  \/ v[1] = m[1] /\ v[2] = m[2] /\ v[3] < m[3]

\* C8: with az found and "az version" answering, check_local_requirements
\* fails exactly when the reported version is below 2.27.0, number by number.
C8_MinimumVersionGate ==
  (pc # "start" /\ logged \notin {"az not found", "CalledProcessError"}) =>
    (logged = "version requirement not met"
       <=> VersionBelow(VersionNumbers(az_version),
                        VersionNumbers(VersionString(2, 27, 0))))

\* s is a prefix of t.
IsPrefix(s, t) == Len(s) <= Len(t) /\ SubSeq(t, 1, Len(s)) = s

\* C9: a step never changes which object a key of the network map holds,
\* never changes that object apart from appending to its peer list, and
\* appends peers to no object other than the ones the map holds.
C9_FirstWriterWins ==
  [][ /\ \A j \in 1..Len(runtime.vnet_map) :
           /\ j <= Len(runtime'.vnet_map)
           /\ runtime'.vnet_map[j] = runtime.vnet_map[j]
           /\ LET old == vnet_objs[runtime.vnet_map[j].value]
                  new == vnet_objs'[runtime.vnet_map[j].value]
              IN  /\ IsPrefix(old.peers, new.peers)
                  /\ [new EXCEPT !.peers = old.peers] = old
      /\ \A r \in 1..Len(vnet_objs') :
           (\A j \in 1..Len(runtime'.vnet_map) : runtime'.vnet_map[j].value # r)
             => vnet_objs'[r].peers = << >>
    ]_vars

\* A network first met as a peering's remote end was later listed itself:
\* the map still holds the first object, which has collected peers since, and
\* the objects parsed later for the same identifier hold none.
C9_ListedAfterRemote ==
  \E j \in 1..Len(runtime.vnet_map) :
    LET r == runtime.vnet_map[j].value
    IN  /\ Len(vnet_objs[r].peers) >= 2
        /\ \E q \in 1..Len(peering_objs) : peering_objs[q].peeredVnet = r
        /\ \E c \in 1..Len(vnet_objs) :
             /\ c > r
             /\ vnet_objs[c].id = vnet_objs[r].id
             /\ \E q \in 1..Len(peering_objs) : peering_objs[q].thisVnet = c

\* C10: distinct networks having distinct hashes, two discovered peerings
\* that join different pairs of networks have different entries in the
\* peering map, so that the written text has one edge for every pair of
\* peered networks that was discovered.
C10_DistinctPeeringsDistinctEntries ==
  (\A v, w \in AllVnets : v # w => az_res_hash(VnetId(v)) # az_res_hash(VnetId(w)))
  => /\ \A p, q \in Peerings : Ends(p) # Ends(q) => p.hash # q.hash
     /\ pc = "done" =>
          Cardinality(EdgeDecls(outfile)) = Cardinality({Ends(p) : p \in Peerings})

====
